---- MODULE Spec2Model ----
(***************************************************************************)
(* The Lost Scroll of Eldoria: the Game class of codex_adventure/game.py.  *)
(* The state is the six public attributes of a Game object; every public   *)
(* method is one action, callable in any order.  The injected RNG is the   *)
(* environment: each call of _randint(a, b) is a nondeterministic choice   *)
(* within a..b (rng_kind says which values of the range the RNG hands      *)
(* out, rng_index how many draws it has handed out).  Three history        *)
(* variables record what a caller observes of a call: which method ran     *)
(* (lastOp), what it returned (ret) and the draws it took from the RNG, in *)
(* order, each with the range it asked for (drawn); hp_before is the       *)
(* player_hp the step started from.  Game.run_cli is the driver: pc is its *)
(* position, one action per input it reads, per method it calls and per    *)
(* result it handles.  terminal_game.py, the script the class was          *)
(* refactored from, runs beside the driver on its own copy of the state,   *)
(* the script_ variables, fed the same inputs and the same draws.  Three    *)
(* more history variables follow the battle of one session: the player_hp  *)
(* the battle loop was entered with (battle_entry_hp), the number of       *)
(* attacks made (attack_rounds) and whether every battle choice so far was *)
(* an attack (attack_only).                                                *)
(***************************************************************************)
EXTENDS Integers, Sequences, FiniteSets, TLC

VARIABLES player_hp, player_name, has_key, has_potion, game_over, guardian_hp,
          rng_kind, rng_index, lastOp, ret, drawn, hp_before, pc,
          script_pc, script_player_hp, script_has_key, script_has_potion,
          script_game_over, battle_entry_hp, attack_rounds, attack_only

vars == <<player_hp, player_name, has_key, has_potion, game_over, guardian_hp,
          rng_kind, rng_index, lastOp, ret, drawn, hp_before, pc,
          script_pc, script_player_hp, script_has_key, script_has_potion,
          script_game_over, battle_entry_hp, attack_rounds, attack_only>>

\* the globals of terminal_game.py and its position
script == <<script_pc, script_player_hp, script_has_key, script_has_potion,
            script_game_over>>

\* what is recorded of the battle of a session
battle == <<battle_entry_hp, attack_rounds, attack_only>>

\* the six attributes of Game
fields == <<player_hp, player_name, has_key, has_potion, game_over, guardian_hp>>

\* Number of draws handed out in a run by an RNG that may return any value of
\* the requested range.
MaxDraws == 4

\* Number of draws handed out in a run by an RNG scripted to return only the
\* ends of the requested range.
MaxEdgeDraws == 7

\* Number of draws handed out in a run once run_cli has been called.
MaxCliDraws == 40

\* Rolls of randint(1, 100) explored: both ends of the range and both sides
\* of each threshold the code compares a percent roll with (40 and 70).
PercentRolls == {1, 40, 41, 70, 71, 100}

\* Draws of an RNG scripted for one session: the ends of the requested
\* range and, for the trap's damage and the player's attack, the values that
\* leave player_hp at 81 or 80 after the trap and guardian_hp at 1 after two
\* attacks.
SessionDraws(a, b) ==
    {a, b} \cup (IF a = 15 /\ b = 30 THEN {19, 20}
                 ELSE IF a = 10 /\ b = 25 THEN {24}
                 ELSE {})

\* Game._randint(a, b): the values the injected RNG may return for the
\* request (a, b), all within a..b.
randint(a, b) ==
    IF a = 1 /\ b = 100 THEN PercentRolls
    ELSE IF rng_kind = "edges" THEN {a, b}
    ELSE IF rng_kind = "session" THEN SessionDraws(a, b)
    ELSE a..b

\* The RNG's position advances by one per draw (SeqRNG._index).  A call whose
\* n-th draw would exceed the number of draws of the run is not explored.
CanDraw(n) ==
    rng_index + n <= (IF pc # "new" THEN MaxCliDraws
                      ELSE IF rng_kind = "edges" THEN MaxEdgeDraws
                      ELSE MaxDraws)

Consume == rng_index' = rng_index + Len(drawn')

\* One draw as the RNG sees it: the requested range and the value returned.
Draw(a, b, v) == <<a, b, v>>

\* Game.__init__: the RNG is injected, then reset() runs.
Construct(kind) ==
    /\ player_hp = 100
    /\ player_name = ""
    /\ has_key = FALSE
    /\ has_potion = TRUE
    /\ game_over = FALSE
    /\ guardian_hp = 50
    /\ rng_kind = kind
    /\ rng_index = 0
    /\ lastOp = "reset"
    /\ ret = "None"
    /\ drawn = <<>>
    /\ hp_before = 100
    /\ pc = "new"
    /\ battle_entry_hp = 0
    /\ attack_rounds = 0
    /\ attack_only = TRUE

\* terminal_game.py, lines 5-9: the script's globals
ScriptStart ==
    /\ script_pc = "new"
    /\ script_player_hp = 100
    /\ script_has_key = FALSE
    /\ script_has_potion = TRUE
    /\ script_game_over = FALSE

Init == Construct("any") /\ ScriptStart

InitEdges == Construct("edges") /\ ScriptStart

\* reset that leaves the player without the potion
reset_drops_potion ==
    /\ player_hp' = 100
    /\ player_name' = ""
    /\ has_key' = FALSE
    /\ has_potion' = FALSE
    /\ game_over' = FALSE
    /\ guardian_hp' = 50
    /\ lastOp' = "reset"
    /\ ret' = "None"
    /\ drawn' = <<>>
    /\ Consume
    /\ UNCHANGED rng_kind

\* reset that leaves the guardian as the last battle left it
reset_keeps_guardian ==
    /\ player_hp' = 100
    /\ player_name' = ""
    /\ has_key' = FALSE
    /\ has_potion' = TRUE
    /\ game_over' = FALSE
    /\ guardian_hp' = guardian_hp
    /\ lastOp' = "reset"
    /\ ret' = "None"
    /\ drawn' = <<>>
    /\ Consume
    /\ UNCHANGED rng_kind

\* Game.reset
reset ==
    /\ player_hp' = 100
    /\ player_name' = ""
    /\ has_key' = FALSE
    /\ has_potion' = TRUE
    /\ game_over' = FALSE
    /\ guardian_hp' = 50
    /\ lastOp' = "reset"
    /\ ret' = "None"
    /\ drawn' = <<>>
    /\ Consume
    /\ UNCHANGED rng_kind

\* the check of line 78 left out
potion_missing_unchecked == FALSE

\* use_potion, line 78: no potion to use
potion_missing == ~has_potion

\* the cap of lines 83-84 left out
heal_uncapped(hp, heal_amount) == hp + heal_amount

\* the cap applied only to a player who was at 100 or below
heal_capped_from_below(hp, heal_amount) ==
    IF hp > 100 THEN hp + heal_amount
    ELSE IF hp + heal_amount > 100 THEN 100 ELSE hp + heal_amount

\* use_potion, lines 82-84: heal, then cap at 100
heal_capped(hp, heal_amount) ==
    IF hp + heal_amount > 100 THEN 100 ELSE hp + heal_amount

\* Game.use_potion
use_potion ==
    /\ lastOp' = "use_potion"
    /\ IF potion_missing
       THEN /\ ret' = <<FALSE, 0>>
            /\ drawn' = <<>>
            /\ UNCHANGED fields
       ELSE /\ CanDraw(1)
            /\ \E heal_amount \in randint(20, 40) :
                /\ drawn' = <<Draw(20, 40, heal_amount)>>
                /\ player_hp' = heal_capped(player_hp, heal_amount)
                /\ has_potion' = FALSE
                /\ ret' = <<TRUE, heal_amount>>
                /\ UNCHANGED <<player_name, has_key, game_over, guardian_hp>>
    /\ Consume
    /\ UNCHANGED rng_kind

\* a trap at even odds instead of 60%
is_trap_even(event_chance) == event_chance > 50

\* enter_eastern_path, line 98: the roll springs the trap
is_trap(event_chance) == event_chance > 40

\* the key roll made whether or not the key is held, as on the western path
rolls_for_key_always == TRUE

\* enter_eastern_path, line 104: the key roll is made
rolls_for_key == ~has_key

\* the trap striking twice
trap_damage_doubled(hp, damage) == hp - 2 * damage

\* enter_eastern_path, line 100: the trap's damage, no floor
trap_damage(hp, damage) == hp - damage

\* Game.enter_eastern_path
enter_eastern_path ==
    /\ lastOp' = "enter_eastern_path"
    /\ CanDraw(1)
    /\ \E event_chance \in randint(1, 100) :
        IF is_trap(event_chance)
        THEN /\ CanDraw(2)
             /\ \E damage \in randint(15, 30) :
                 /\ drawn' = <<Draw(1, 100, event_chance), Draw(15, 30, damage)>>
                 /\ player_hp' = trap_damage(player_hp, damage)
                 /\ ret' = <<"trap", damage>>
                 /\ UNCHANGED <<player_name, has_key, has_potion, game_over, guardian_hp>>
        ELSE IF rolls_for_key
             THEN /\ CanDraw(2)
                  /\ \E key_roll \in randint(1, 3) :
                      /\ drawn' = <<Draw(1, 100, event_chance), Draw(1, 3, key_roll)>>
                      /\ IF key_roll = 1
                         THEN /\ has_key' = TRUE
                              /\ ret' = <<"safe_key_found", 0>>
                         ELSE /\ has_key' = has_key
                              /\ ret' = <<"safe", 0>>
                      /\ UNCHANGED <<player_hp, player_name, has_potion, game_over, guardian_hp>>
             ELSE /\ drawn' = <<Draw(1, 100, event_chance)>>
                  /\ ret' = <<"safe", 0>>
                  /\ UNCHANGED fields
    /\ Consume
    /\ UNCHANGED rng_kind

\* the chest opens without the key
chest_never_locked == FALSE

\* investigate_cave, line 117: the chest stays locked
chest_locked == ~has_key

\* Game.investigate_cave
investigate_cave ==
    /\ lastOp' = "investigate_cave"
    /\ drawn' = <<>>
    /\ IF chest_locked
       THEN /\ ret' = "no_key"
            /\ UNCHANGED fields
       ELSE IF ~has_potion
            THEN /\ has_potion' = TRUE
                 /\ ret' = "chest_potion"
                 /\ UNCHANGED <<player_hp, player_name, has_key, game_over, guardian_hp>>
            ELSE /\ ret' = "chest_empty"
                 /\ UNCHANGED fields
    /\ Consume
    /\ UNCHANGED rng_kind

\* a key reported on every roll of 1, held or not
finds_key_west_again(roll) == roll = 1

\* a key found on a roll of 2 as well
finds_key_west_on_two(roll) == roll <= 2 /\ ~has_key

\* enter_western_path, line 136: the roll turns up a key
finds_key_west(roll) == roll = 1 /\ ~has_key

\* Game.enter_western_path
enter_western_path ==
    /\ lastOp' = "enter_western_path"
    /\ CanDraw(1)
    /\ \E roll \in randint(1, 4) :
        /\ drawn' = <<Draw(1, 4, roll)>>
        /\ IF finds_key_west(roll)
           THEN /\ has_key' = TRUE
                /\ ret' = <<"western", TRUE>>
           ELSE /\ has_key' = has_key
                /\ ret' = <<"western", FALSE>>
        /\ UNCHANGED <<player_hp, player_name, has_potion, game_over, guardian_hp>>
    /\ Consume
    /\ UNCHANGED rng_kind

\* the stream capped at 100 as the potion is
stream_heal_capped(hp, healing) ==
    IF hp + healing > 100 THEN 100 ELSE hp + healing

\* drink_from_stream, line 149: heal without a cap
stream_heal(hp, healing) == hp + healing

\* Game.drink_from_stream
drink_from_stream ==
    /\ lastOp' = "drink_from_stream"
    /\ CanDraw(1)
    /\ \E healing \in randint(5, 15) :
        /\ drawn' = <<Draw(5, 15, healing)>>
        /\ player_hp' = stream_heal(player_hp, healing)
        /\ ret' = healing
        /\ UNCHANGED <<player_name, has_key, has_potion, game_over, guardian_hp>>
    /\ Consume
    /\ UNCHANGED rng_kind

\* a guardian at exactly 0 still standing
guardian_down_strict(hp) == hp < 0

\* battle_guardian_once, line 163: the guardian is down
guardian_down(hp) == hp <= 0

\* the guardian's blow landing twice
retaliate_twice(hp, guardian_attack) == hp - 2 * guardian_attack

\* the guardian's blow added instead of subtracted
retaliate_added(hp, guardian_attack) == hp + guardian_attack

\* battle_guardian_once, line 167: the guardian's blow lands on the player
retaliate(hp, guardian_attack) == hp - guardian_attack

\* Game.battle_guardian_once
battle_guardian_once ==
    /\ lastOp' = "battle_guardian_once"
    /\ CanDraw(1)
    /\ \E player_attack \in randint(10, 25) :
        /\ guardian_hp' = guardian_hp - player_attack
        /\ IF guardian_down(guardian_hp - player_attack)
           THEN /\ drawn' = <<Draw(10, 25, player_attack)>>
                /\ ret' = <<"guardian_defeated", player_attack, 0>>
                /\ UNCHANGED <<player_hp, player_name, has_key, has_potion, game_over>>
           ELSE /\ CanDraw(2)
                /\ \E guardian_attack \in randint(10, 20) :
                    /\ drawn' = <<Draw(10, 25, player_attack), Draw(10, 20, guardian_attack)>>
                    /\ player_hp' = retaliate(player_hp, guardian_attack)
                    /\ ret' = <<"guardian_retaliates", player_attack, guardian_attack>>
                    /\ UNCHANGED <<player_name, has_key, has_potion, game_over>>
    /\ Consume
    /\ UNCHANGED rng_kind

\* a failed sneak that costs nothing
sneak_damage_none(hp, damage) == hp

\* the damage of a failed sneak floored at 0
sneak_damage_floored(hp, damage) ==
    IF hp - damage < 0 THEN 0 ELSE hp - damage

\* attempt_sneak, line 182: the damage of a failed sneak, no floor
sneak_damage(hp, damage) == hp - damage

\* Game.attempt_sneak
attempt_sneak ==
    /\ lastOp' = "attempt_sneak"
    /\ CanDraw(1)
    /\ \E sneak_chance \in randint(1, 100) :
        IF sneak_chance > 70
        THEN /\ drawn' = <<Draw(1, 100, sneak_chance)>>
             /\ ret' = <<TRUE, 0>>
             /\ UNCHANGED fields
        ELSE /\ CanDraw(2)
             /\ \E damage \in randint(20, 35) :
                 /\ drawn' = <<Draw(1, 100, sneak_chance), Draw(20, 35, damage)>>
                 /\ player_hp' = sneak_damage(player_hp, damage)
                 /\ ret' = <<FALSE, damage>>
                 /\ UNCHANGED <<player_name, has_key, has_potion, game_over, guardian_hp>>
    /\ Consume
    /\ UNCHANGED rng_kind

\* A method called on a Game whose run_cli is not running.
Called ==
    /\ pc = "new"
    /\ hp_before' = player_hp
    /\ UNCHANGED <<pc, script, battle>>

Next ==
    \/ reset /\ Called
    \/ use_potion /\ Called
    \/ enter_eastern_path /\ Called
    \/ investigate_cave /\ Called
    \/ enter_western_path /\ Called
    \/ drink_from_stream /\ Called
    \/ battle_guardian_once /\ Called
    \/ attempt_sneak /\ Called

\* Any caller, any RNG returning values in the requested ranges.
Spec == Init /\ [][Next]_vars

\* Any caller, an RNG scripted to the ends of the requested ranges.
SpecEdges == InitEdges /\ [][Next]_vars

----------------------------------------------------------------------------
(* Game.run_cli.  pc is "new" while run_cli is not running, "done" once it  *)
(* has returned; in between it names the input() the driver waits at       *)
(* ("menu", "cave_menu", "stream_menu", "guardian"), the call whose result *)
(* it is about to handle ("east_returned", "attack_returned",              *)
(* "sneak_returned", "potion_returned"), the stream crossing ("crossing")  *)
(* or the epilogue after the battle loop ("ending").                       *)

\* what the player can type as a name
Names == {"Ann"}

\* a step of run_cli itself, which takes nothing from the RNG
DriverStep ==
    /\ lastOp' = "run_cli"
    /\ ret' = "None"
    /\ drawn' = <<>>
    /\ Consume
    /\ hp_before' = player_hp
    /\ UNCHANGED rng_kind

\* a method called by run_cli
DriverCall ==
    /\ hp_before' = player_hp

\* the outer loop tested on player_hp alone
outer_continues_alive == player_hp > 0

\* run_cli, line 197: the condition of the outer loop
outer_continues == ~game_over /\ player_hp > 0

\* run_cli, line 286: the condition of the battle loop
battle_continues == player_hp > 0 /\ ~game_over

\* a player at exactly 0 still standing
player_dead_strict == player_hp < 0

\* run_cli, line 338: the player has collapsed
player_dead == player_hp <= 0

\* run_cli, lines 338-341: the check that ends every battle round
death_check ==
    IF player_dead
    THEN game_over' = TRUE /\ pc' = "ending"
    ELSE game_over' = game_over /\ pc' = "guardian"

\* run_cli, lines 191-195: the name is read
cli_start ==
    /\ pc = "new"
    /\ \E name \in Names : player_name' = name
    /\ pc' = "menu"
    /\ DriverStep
    /\ UNCHANGED <<player_hp, has_key, has_potion, game_over, guardian_hp>>

\* run_cli, lines 197 and 352: the outer loop ends and run_cli returns
cli_exit ==
    /\ pc = "menu"
    /\ ~outer_continues
    /\ pc' = "done"
    /\ DriverStep
    /\ UNCHANGED fields

\* run_cli, lines 211-217: choice 1, the eastern path
cli_path_east ==
    /\ pc = "menu"
    /\ outer_continues
    /\ enter_eastern_path
    /\ pc' = "east_returned"
    /\ DriverCall

\* run_cli, lines 219-235: the result of the eastern path; a deadly trap
\* breaks out of the outer loop
cli_east_result ==
    /\ pc = "east_returned"
    /\ IF ret[1] = "trap" /\ player_hp <= 0
       THEN pc' = "done"
       ELSE pc' = "cave_menu"
    /\ DriverStep
    /\ UNCHANGED fields

\* run_cli, lines 237-251: choice 1 at the cave
cli_cave_investigate ==
    /\ pc = "cave_menu"
    /\ investigate_cave
    /\ pc' = "guardian"
    /\ DriverCall

\* run_cli, lines 252-253: any other choice at the cave
cli_cave_skip ==
    /\ pc = "cave_menu"
    /\ pc' = "guardian"
    /\ DriverStep
    /\ UNCHANGED fields

\* run_cli, lines 255-262: choice 2, the western path
cli_path_west ==
    /\ pc = "menu"
    /\ outer_continues
    /\ pc' = "stream_menu"
    /\ DriverStep
    /\ UNCHANGED fields

\* run_cli, lines 264-267: choice 1 at the stream
cli_stream_drink ==
    /\ pc = "stream_menu"
    /\ drink_from_stream
    /\ pc' = "crossing"
    /\ DriverCall

\* run_cli, lines 268-269: any other choice at the stream
cli_stream_skip ==
    /\ pc = "stream_menu"
    /\ pc' = "crossing"
    /\ DriverStep
    /\ UNCHANGED fields

\* run_cli, lines 271-274: the stream is crossed
cli_cross ==
    /\ pc = "crossing"
    /\ enter_western_path
    /\ pc' = "guardian"
    /\ DriverCall

\* the continue of line 279 left out: on to the guardian
cli_path_invalid_falls_through ==
    /\ pc = "menu"
    /\ outer_continues
    /\ pc' = "guardian"
    /\ DriverStep
    /\ UNCHANGED fields

\* run_cli, lines 276-279: any other choice of path, back to the menu
cli_path_invalid ==
    /\ pc = "menu"
    /\ outer_continues
    /\ pc' = "menu"
    /\ DriverStep
    /\ UNCHANGED fields

\* run_cli, lines 295-296: battle choice 1
cli_attack ==
    /\ pc = "guardian"
    /\ battle_continues
    /\ battle_guardian_once
    /\ pc' = "attack_returned"
    /\ DriverCall

\* the victory of lines 299-302 left out: the battle goes on
cli_attack_result_fights_on ==
    /\ pc = "attack_returned"
    /\ death_check
    /\ DriverStep
    /\ UNCHANGED <<player_hp, player_name, has_key, has_potion, guardian_hp>>

\* run_cli, lines 297-306 and 338-341: the result of the attack
cli_attack_result ==
    /\ pc = "attack_returned"
    /\ IF ret[1] = "guardian_defeated"
       THEN game_over' = TRUE /\ pc' = "ending"
       ELSE death_check
    /\ DriverStep
    /\ UNCHANGED <<player_hp, player_name, has_key, has_potion, guardian_hp>>

\* run_cli, lines 308-311: battle choice 2
cli_sneak ==
    /\ pc = "guardian"
    /\ battle_continues
    /\ attempt_sneak
    /\ pc' = "sneak_returned"
    /\ DriverCall

\* run_cli, lines 313-320 and 338-341: the result of the sneak
cli_sneak_result ==
    /\ pc = "sneak_returned"
    /\ IF ret[1]
       THEN game_over' = TRUE /\ pc' = "ending"
       ELSE death_check
    /\ DriverStep
    /\ UNCHANGED <<player_hp, player_name, has_key, has_potion, guardian_hp>>

\* run_cli, lines 322-324: battle choice 3 with a potion
cli_potion ==
    /\ pc = "guardian"
    /\ battle_continues
    /\ has_potion
    /\ use_potion
    /\ pc' = "potion_returned"
    /\ DriverCall

\* run_cli, lines 325-326 and 338-341: after the potion
cli_potion_result ==
    /\ pc = "potion_returned"
    /\ death_check
    /\ DriverStep
    /\ UNCHANGED <<player_hp, player_name, has_key, has_potion, guardian_hp>>

\* the wasted turn of line 329 costing health
cli_no_potion_hurts ==
    /\ pc = "guardian"
    /\ battle_continues
    /\ ~has_potion
    /\ player_hp' = player_hp - 5
    /\ game_over' = game_over
    /\ pc' = "guardian"
    /\ DriverStep
    /\ UNCHANGED <<player_name, has_key, has_potion, guardian_hp>>

\* run_cli, lines 328-329 and 338-341: battle choice 3 without a potion
cli_no_potion ==
    /\ pc = "guardian"
    /\ battle_continues
    /\ ~has_potion
    /\ death_check
    /\ DriverStep
    /\ UNCHANGED <<player_hp, player_name, has_key, has_potion, guardian_hp>>

\* run_cli, lines 331-341: any other battle choice, the guardian strikes
cli_battle_invalid ==
    /\ pc = "guardian"
    /\ battle_continues
    /\ CanDraw(1)
    /\ \E guardian_attack \in randint(5, 15) :
        /\ drawn' = <<Draw(5, 15, guardian_attack)>>
        /\ player_hp' = player_hp - guardian_attack
        /\ IF player_hp - guardian_attack <= 0
           THEN game_over' = TRUE /\ pc' = "ending"
           ELSE game_over' = game_over /\ pc' = "guardian"
    /\ lastOp' = "run_cli"
    /\ ret' = "None"
    /\ Consume
    /\ hp_before' = player_hp
    /\ UNCHANGED <<player_name, has_key, has_potion, guardian_hp, rng_kind>>

\* the epilogue that clears the flag so that the outer loop runs again
cli_epilogue_replay ==
    /\ IF pc = "guardian" THEN ~battle_continues ELSE pc = "ending"
    /\ pc' = "menu"
    /\ game_over' = FALSE
    /\ DriverStep
    /\ UNCHANGED <<player_hp, player_name, has_key, has_potion, guardian_hp>>

\* run_cli, lines 286 and 343-350: the battle loop is left, by a break or by
\* its condition; the epilogue, then back to the test of line 197
cli_epilogue ==
    /\ IF pc = "guardian" THEN ~battle_continues ELSE pc = "ending"
    /\ pc' = "menu"
    /\ DriverStep
    /\ UNCHANGED fields

\* reset() called on a Game whose run_cli is not running
cli_reset ==
    /\ pc \in {"new", "done"}
    /\ reset
    /\ pc' = "new"
    /\ hp_before' = player_hp

NextCli ==
    \/ cli_start /\ UNCHANGED <<script, battle>>
    \/ cli_exit /\ UNCHANGED <<script, battle>>
    \/ cli_path_east /\ UNCHANGED <<script, battle>>
    \/ cli_east_result /\ UNCHANGED <<script, battle>>
    \/ cli_cave_investigate /\ UNCHANGED <<script, battle>>
    \/ cli_cave_skip /\ UNCHANGED <<script, battle>>
    \/ cli_path_west /\ UNCHANGED <<script, battle>>
    \/ cli_stream_drink /\ UNCHANGED <<script, battle>>
    \/ cli_stream_skip /\ UNCHANGED <<script, battle>>
    \/ cli_cross /\ UNCHANGED <<script, battle>>
    \/ cli_path_invalid /\ UNCHANGED <<script, battle>>
    \/ cli_attack /\ UNCHANGED <<script, battle>>
    \/ cli_attack_result /\ UNCHANGED <<script, battle>>
    \/ cli_sneak /\ UNCHANGED <<script, battle>>
    \/ cli_sneak_result /\ UNCHANGED <<script, battle>>
    \/ cli_potion /\ UNCHANGED <<script, battle>>
    \/ cli_potion_result /\ UNCHANGED <<script, battle>>
    \/ cli_no_potion /\ UNCHANGED <<script, battle>>
    \/ cli_battle_invalid /\ UNCHANGED <<script, battle>>
    \/ cli_epilogue /\ UNCHANGED <<script, battle>>
    \/ cli_reset /\ UNCHANGED <<script, battle>>

\* Sessions of run_cli, an RNG scripted to the ends of the requested ranges.
SpecCli == InitEdges /\ [][NextCli]_vars

----------------------------------------------------------------------------
(* One session of run_cli on a new Game, with the battle recorded.  The     *)
(* player is the environment: each choice typed at an input() is a step.    *)

InitSession == Construct("session") /\ ScriptStart

\* run_cli, lines 281-286: the battle loop is reached
enters_battle ==
    /\ battle_entry_hp' = player_hp'
    /\ UNCHANGED <<attack_rounds, attack_only>>

\* run_cli, lines 295-296: a round of battle choice 1
attack_round ==
    /\ attack_rounds' = attack_rounds + 1
    /\ UNCHANGED <<battle_entry_hp, attack_only>>

\* run_cli, lines 308-336: a round of any other battle choice
other_round ==
    /\ attack_only' = FALSE
    /\ UNCHANGED <<battle_entry_hp, attack_rounds>>

\* The steps that move a session on: every step of run_cli but the two
\* choices that leave everything as it was, an invalid choice of path
\* (lines 276-279) and battle choice 3 without a potion (lines 328-329).
SessionProgress ==
    \/ cli_start /\ UNCHANGED <<script, battle>>
    \/ cli_exit /\ UNCHANGED <<script, battle>>
    \/ cli_path_east /\ UNCHANGED <<script, battle>>
    \/ cli_east_result /\ UNCHANGED <<script, battle>>
    \/ cli_cave_investigate /\ enters_battle /\ UNCHANGED script
    \/ cli_cave_skip /\ enters_battle /\ UNCHANGED script
    \/ cli_path_west /\ UNCHANGED <<script, battle>>
    \/ cli_stream_drink /\ UNCHANGED <<script, battle>>
    \/ cli_stream_skip /\ UNCHANGED <<script, battle>>
    \/ cli_cross /\ enters_battle /\ UNCHANGED script
    \/ cli_attack /\ attack_round /\ UNCHANGED script
    \/ cli_attack_result /\ UNCHANGED <<script, battle>>
    \/ cli_sneak /\ other_round /\ UNCHANGED script
    \/ cli_sneak_result /\ UNCHANGED <<script, battle>>
    \/ cli_potion /\ other_round /\ UNCHANGED script
    \/ cli_potion_result /\ UNCHANGED <<script, battle>>
    \/ cli_battle_invalid /\ other_round /\ UNCHANGED script
    \/ cli_epilogue /\ UNCHANGED <<script, battle>>

NextSession ==
    \/ SessionProgress
    \/ cli_path_invalid /\ UNCHANGED <<script, battle>>
    \/ cli_no_potion /\ other_round /\ UNCHANGED script

\* One session.  The statements of run_cli run one after the other, and the
\* player does not type choices that change nothing for ever: a step that
\* moves the session on (each changes the position or player_hp) is taken
\* whenever one stays possible.
SpecSession ==
    InitSession /\ [][NextSession]_vars /\ WF_<<pc, fields>>(SessionProgress)

----------------------------------------------------------------------------
(* terminal_game.py.  The script takes its step in the same step in which   *)
(* the driver reads the input or makes the call, from the same draws d (the *)
(* driver's drawn'), and does at once what the driver does in a call and    *)
(* the handling of its result; script_pc names the input() it waits at.     *)

\* the i-th draw of the script's step: the driver's i-th draw of this step,
\* or a fresh one where the driver took fewer draws
script_draw(d, i, a, b) == IF i <= Len(d) THEN {d[i][3]} ELSE randint(a, b)

\* terminal_game.py, line 19: the condition of the outer loop
script_outer_continues == ~script_game_over /\ script_player_hp > 0

\* terminal_game.py, line 111: the condition of the battle loop
script_battle_continues == script_player_hp > 0 /\ ~script_game_over

\* terminal_game.py, lines 168-171: the check that ends every battle round,
\* on the player_hp the round leaves
script_death_check(hp) ==
    IF hp <= 0
    THEN script_game_over' = TRUE /\ script_pc' = "ending"
    ELSE script_game_over' = script_game_over /\ script_pc' = "guardian"

\* terminal_game.py, lines 12-16: the name is read
script_start ==
    /\ script_pc = "new"
    /\ script_pc' = "menu"
    /\ UNCHANGED <<script_player_hp, script_has_key, script_has_potion, script_game_over>>

\* terminal_game.py, lines 19 and 183: the outer loop ends
script_exit ==
    /\ script_pc = "menu"
    /\ ~script_outer_continues
    /\ script_pc' = "done"
    /\ UNCHANGED <<script_player_hp, script_has_key, script_has_potion, script_game_over>>

\* terminal_game.py, lines 35-60: choice 1, the eastern path
script_path_east(d) ==
    /\ script_pc = "menu"
    /\ script_outer_continues
    /\ \E event_chance \in script_draw(d, 1, 1, 100) :
        IF event_chance > 40
        THEN \E damage \in script_draw(d, 2, 15, 30) :
             /\ script_player_hp' = script_player_hp - damage
             /\ script_pc' = IF script_player_hp - damage <= 0
                             THEN "done" ELSE "cave_menu"
             /\ UNCHANGED <<script_has_key, script_has_potion, script_game_over>>
        ELSE IF ~script_has_key
             THEN \E key_roll \in script_draw(d, 2, 1, 3) :
                  /\ script_has_key' = (key_roll = 1)
                  /\ script_pc' = "cave_menu"
                  /\ UNCHANGED <<script_player_hp, script_has_potion, script_game_over>>
             ELSE /\ script_pc' = "cave_menu"
                  /\ UNCHANGED <<script_player_hp, script_has_key, script_has_potion,
                                 script_game_over>>

\* terminal_game.py, lines 64-75: choice 1 at the cave
script_cave_investigate ==
    /\ script_pc = "cave_menu"
    /\ script_has_potion' = (IF script_has_key /\ ~script_has_potion
                             THEN TRUE ELSE script_has_potion)
    /\ script_pc' = "guardian"
    /\ UNCHANGED <<script_player_hp, script_has_key, script_game_over>>

\* terminal_game.py, lines 76-77: any other choice at the cave
script_cave_skip ==
    /\ script_pc = "cave_menu"
    /\ script_pc' = "guardian"
    /\ UNCHANGED <<script_player_hp, script_has_key, script_has_potion, script_game_over>>

\* terminal_game.py, lines 79-86: choice 2, the western path
script_path_west ==
    /\ script_pc = "menu"
    /\ script_outer_continues
    /\ script_pc' = "stream_menu"
    /\ UNCHANGED <<script_player_hp, script_has_key, script_has_potion, script_game_over>>

\* terminal_game.py, lines 88-92: choice 1 at the stream
script_stream_drink(d) ==
    /\ script_pc = "stream_menu"
    /\ \E healing \in script_draw(d, 1, 5, 15) :
        script_player_hp' = script_player_hp + healing
    /\ script_pc' = "crossing"
    /\ UNCHANGED <<script_has_key, script_has_potion, script_game_over>>

\* terminal_game.py, lines 93-94: any other choice at the stream
script_stream_skip ==
    /\ script_pc = "stream_menu"
    /\ script_pc' = "crossing"
    /\ UNCHANGED <<script_player_hp, script_has_key, script_has_potion, script_game_over>>

\* terminal_game.py, lines 96-99: the stream is crossed
script_cross(d) ==
    /\ script_pc = "crossing"
    /\ \E roll \in script_draw(d, 1, 1, 4) :
        script_has_key' = (IF roll = 1 /\ ~script_has_key THEN TRUE ELSE script_has_key)
    /\ script_pc' = "guardian"
    /\ UNCHANGED <<script_player_hp, script_has_potion, script_game_over>>

\* terminal_game.py, lines 101-104: any other choice of path
script_path_invalid ==
    /\ script_pc = "menu"
    /\ script_outer_continues
    /\ script_pc' = "menu"
    /\ UNCHANGED <<script_player_hp, script_has_key, script_has_potion, script_game_over>>

\* terminal_game.py, lines 120-134 and 168-171: battle choice 1; guardian_hp
\* is a local computed from 50 in every round (line 122)
script_attack(d) ==
    /\ script_pc = "guardian"
    /\ script_battle_continues
    /\ \E player_attack \in script_draw(d, 1, 10, 25) :
        LET guardian_hp_local == 50 - player_attack IN
        IF guardian_hp_local <= 0
        THEN /\ script_game_over' = TRUE
             /\ script_pc' = "ending"
             /\ UNCHANGED script_player_hp
        ELSE \E guardian_attack \in script_draw(d, 2, 10, 20) :
             /\ script_player_hp' = script_player_hp - guardian_attack
             /\ script_death_check(script_player_hp - guardian_attack)
    /\ UNCHANGED <<script_has_key, script_has_potion>>

\* terminal_game.py, lines 136-149 and 168-171: battle choice 2
script_sneak(d) ==
    /\ script_pc = "guardian"
    /\ script_battle_continues
    /\ \E sneak_chance \in script_draw(d, 1, 1, 100) :
        IF sneak_chance > 70
        THEN /\ script_game_over' = TRUE
             /\ script_pc' = "ending"
             /\ UNCHANGED script_player_hp
        ELSE \E damage \in script_draw(d, 2, 20, 35) :
             /\ script_player_hp' = script_player_hp - damage
             /\ script_death_check(script_player_hp - damage)
    /\ UNCHANGED <<script_has_key, script_has_potion>>

\* terminal_game.py, lines 151-158 and 168-171: battle choice 3 with a potion
script_potion(d) ==
    /\ script_pc = "guardian"
    /\ script_battle_continues
    /\ script_has_potion
    /\ \E heal_amount \in script_draw(d, 1, 20, 40) :
        LET healed == IF script_player_hp + heal_amount > 100
                      THEN 100 ELSE script_player_hp + heal_amount IN
        /\ script_player_hp' = healed
        /\ script_death_check(healed)
    /\ script_has_potion' = FALSE
    /\ UNCHANGED script_has_key

\* terminal_game.py, lines 159-160 and 168-171: battle choice 3 without one
script_no_potion ==
    /\ script_pc = "guardian"
    /\ script_battle_continues
    /\ ~script_has_potion
    /\ script_death_check(script_player_hp)
    /\ UNCHANGED <<script_player_hp, script_has_key, script_has_potion>>

\* terminal_game.py, lines 161-171: any other battle choice
script_battle_invalid(d) ==
    /\ script_pc = "guardian"
    /\ script_battle_continues
    /\ \E guardian_attack \in script_draw(d, 1, 5, 15) :
        /\ script_player_hp' = script_player_hp - guardian_attack
        /\ script_death_check(script_player_hp - guardian_attack)
    /\ UNCHANGED <<script_has_key, script_has_potion>>

\* terminal_game.py, lines 111 and 173-180: the battle loop is left, the
\* epilogue, then back to the test of line 19
script_epilogue ==
    /\ IF script_pc = "guardian" THEN ~script_battle_continues
                                 ELSE script_pc = "ending"
    /\ script_pc' = "menu"
    /\ UNCHANGED <<script_player_hp, script_has_key, script_has_potion, script_game_over>>

\* The driver and the script side by side, fed the same input in every step.
\* While the driver handles the result of a call the script waits.
NextBoth ==
    \/ cli_start /\ script_start /\ UNCHANGED battle
    \/ cli_exit /\ script_exit /\ UNCHANGED battle
    \/ cli_path_east /\ script_path_east(drawn') /\ UNCHANGED battle
    \/ cli_east_result /\ UNCHANGED script /\ UNCHANGED battle
    \/ cli_cave_investigate /\ script_cave_investigate /\ UNCHANGED battle
    \/ cli_cave_skip /\ script_cave_skip /\ UNCHANGED battle
    \/ cli_path_west /\ script_path_west /\ UNCHANGED battle
    \/ cli_stream_drink /\ script_stream_drink(drawn') /\ UNCHANGED battle
    \/ cli_stream_skip /\ script_stream_skip /\ UNCHANGED battle
    \/ cli_cross /\ script_cross(drawn') /\ UNCHANGED battle
    \/ cli_path_invalid /\ script_path_invalid /\ UNCHANGED battle
    \/ cli_attack /\ script_attack(drawn') /\ UNCHANGED battle
    \/ cli_attack_result /\ UNCHANGED script /\ UNCHANGED battle
    \/ cli_sneak /\ script_sneak(drawn') /\ UNCHANGED battle
    \/ cli_sneak_result /\ UNCHANGED script /\ UNCHANGED battle
    \/ cli_potion /\ script_potion(drawn') /\ UNCHANGED battle
    \/ cli_potion_result /\ UNCHANGED script /\ UNCHANGED battle
    \/ cli_no_potion /\ script_no_potion /\ UNCHANGED battle
    \/ cli_battle_invalid /\ script_battle_invalid(drawn') /\ UNCHANGED battle
    \/ cli_epilogue /\ script_epilogue /\ UNCHANGED battle

\* One session of each, an RNG scripted to the ends of the requested ranges.
SpecBoth == InitEdges /\ [][NextBoth]_vars

----------------------------------------------------------------------------
(* Properties.  A step with lastOp' = m is a call of method m: unprimed     *)
(* variables are the state at the call, primed ones the state at return.    *)

Min(a, b) == IF a <= b THEN a ELSE b

\* value of the i-th draw of the call that is returning
DrawnValue(i) == drawn'[i][3]

\* range requested by the i-th draw of the call that is returning
DrawnRange(i) == <<drawn'[i][1], drawn'[i][2]>>

\* C1: use_potion with a potion, from a player_hp in 61..100: one draw h in
\* 20..40 is consumed, the call returns (True, h), player_hp becomes
\* min(start + h, 100) and has_potion becomes false.
C1_UsePotionHealsAndCaps ==
    [][(lastOp' = "use_potion" /\ has_potion /\ player_hp \in 61..100) =>
        /\ Len(drawn') = 1
        /\ rng_index' = rng_index + 1
        /\ DrawnRange(1) = <<20, 40>>
        /\ DrawnValue(1) \in 20..40
        /\ ret' = <<TRUE, DrawnValue(1)>>
        /\ player_hp' = Min(player_hp + DrawnValue(1), 100)
        /\ has_potion' = FALSE]_vars

\* the first draw of a run heals 40 from 100: capped at 100
C1_Witness ==
    /\ lastOp = "use_potion"
    /\ rng_index = 1
    /\ ret = <<TRUE, 40>>
    /\ player_hp = 100
    /\ ~has_potion

\* C2: use_potion without a potion returns (False, 0), consumes no draw and
\* leaves all six fields unchanged.
C2_UsePotionNoPotionIsNoOp ==
    [][(lastOp' = "use_potion" /\ ~has_potion) =>
        /\ ret' = <<FALSE, 0>>
        /\ drawn' = <<>>
        /\ rng_index' = rng_index
        /\ UNCHANGED fields]_vars

C2_Witness ==
    /\ lastOp = "use_potion"
    /\ ret = <<FALSE, 0>>
    /\ ~has_potion
    /\ rng_index > 0

\* C3: battle_guardian_once whose attack draw brings guardian_hp to 0 or
\* below returns ("guardian_defeated", attack, 0), consumes exactly one draw
\* and leaves player_hp unchanged.
C3_GuardianDefeated ==
    [][(lastOp' = "battle_guardian_once" /\ guardian_hp - DrawnValue(1) <= 0) =>
        /\ Len(drawn') = 1
        /\ rng_index' = rng_index + 1
        /\ DrawnRange(1) = <<10, 25>>
        /\ ret' = <<"guardian_defeated", DrawnValue(1), 0>>
        /\ guardian_hp' = guardian_hp - DrawnValue(1)
        /\ player_hp' = player_hp]_vars

\* the guardian brought to exactly 0 by an attack of 25
C3_Witness ==
    /\ lastOp = "battle_guardian_once"
    /\ ret = <<"guardian_defeated", 25, 0>>
    /\ guardian_hp = 0

\* C4: battle_guardian_once whose attack draw a leaves guardian_hp above 0
\* takes a second draw g after it and returns ("guardian_retaliates", a, g),
\* with guardian_hp reduced by a and player_hp reduced by g.
C4_GuardianRetaliates ==
    [][(lastOp' = "battle_guardian_once" /\ guardian_hp - DrawnValue(1) > 0) =>
        /\ Len(drawn') = 2
        /\ rng_index' = rng_index + 2
        /\ DrawnRange(1) = <<10, 25>>
        /\ DrawnRange(2) = <<10, 20>>
        /\ ret' = <<"guardian_retaliates", DrawnValue(1), DrawnValue(2)>>
        /\ guardian_hp' = guardian_hp - DrawnValue(1)
        /\ player_hp' = player_hp - DrawnValue(2)]_vars

\* guardian_hp 50, draws 10 then 15
C4_Witness ==
    /\ lastOp = "battle_guardian_once"
    /\ ret = <<"guardian_retaliates", 10, 15>>
    /\ guardian_hp = 40
    /\ player_hp = 85

\* C5: attempt_sneak with a first draw above 70 returns (True, 0), takes no
\* second draw and leaves player_hp unchanged; with a first draw of at most
\* 70 it takes a second draw d, returns (False, d) and subtracts d from
\* player_hp, below 0 if need be.
C5_AttemptSneak ==
    [][lastOp' = "attempt_sneak" =>
        /\ DrawnRange(1) = <<1, 100>>
        /\ IF DrawnValue(1) > 70
           THEN /\ Len(drawn') = 1
                /\ rng_index' = rng_index + 1
                /\ ret' = <<TRUE, 0>>
                /\ player_hp' = player_hp
           ELSE /\ Len(drawn') = 2
                /\ rng_index' = rng_index + 2
                /\ DrawnRange(2) = <<20, 35>>
                /\ ret' = <<FALSE, DrawnValue(2)>>
                /\ player_hp' = player_hp - DrawnValue(2)]_vars

\* a failed sneak on a roll of exactly 70 that takes player_hp below 0
C5_Witness ==
    /\ lastOp = "attempt_sneak"
    /\ drawn[1][3] = 70
    /\ ret = <<FALSE, 35>>
    /\ player_hp < 0

\* C6: enter_eastern_path with a first draw above 40 takes a second draw d,
\* returns ("trap", d), subtracts d from player_hp and leaves has_key
\* unchanged.
C6_EasternTrap ==
    [][(lastOp' = "enter_eastern_path" /\ DrawnValue(1) > 40) =>
        /\ Len(drawn') = 2
        /\ rng_index' = rng_index + 2
        /\ DrawnRange(1) = <<1, 100>>
        /\ DrawnRange(2) = <<15, 30>>
        /\ ret' = <<"trap", DrawnValue(2)>>
        /\ player_hp' = player_hp - DrawnValue(2)
        /\ has_key' = has_key]_vars

\* a roll of 41 springs a trap of 20
C6_Witness ==
    /\ lastOp = "enter_eastern_path"
    /\ drawn[1][3] = 41
    /\ ret = <<"trap", 20>>
    /\ player_hp = 80

\* C7: enter_eastern_path with a first draw of at most 40: the trap roll
\* comes first; the key roll is drawn only if has_key is false; has_key
\* becomes true and the result is ("safe_key_found", 0) exactly when a key
\* roll of 1 is drawn; otherwise the result is ("safe", 0) with has_key
\* unchanged; player_hp is unchanged.
C7_EasternSafe ==
    [][(lastOp' = "enter_eastern_path" /\ DrawnValue(1) <= 40) =>
        /\ DrawnRange(1) = <<1, 100>>
        /\ Len(drawn') = (IF has_key THEN 1 ELSE 2)
        /\ rng_index' = rng_index + Len(drawn')
        /\ ~has_key => DrawnRange(2) = <<1, 3>>
        /\ IF ~has_key /\ DrawnValue(2) = 1
           THEN has_key' = TRUE /\ ret' = <<"safe_key_found", 0>>
           ELSE has_key' = has_key /\ ret' = <<"safe", 0>>
        /\ player_hp' = player_hp]_vars

\* the safe branch entered with the key in hand: one draw only
C7_Witness ==
    /\ lastOp = "enter_eastern_path"
    /\ has_key
    /\ Len(drawn) = 1
    /\ drawn[1][3] = 40
    /\ ret = <<"safe", 0>>

\* C8: drink_from_stream draws one value h, adds it to player_hp without a
\* cap, returns h and changes no other field.
C8_DrinkFromStream ==
    [][lastOp' = "drink_from_stream" =>
        /\ Len(drawn') = 1
        /\ rng_index' = rng_index + 1
        /\ DrawnRange(1) = <<5, 15>>
        /\ ret' = DrawnValue(1)
        /\ player_hp' = player_hp + DrawnValue(1)
        /\ UNCHANGED <<player_name, has_key, has_potion, game_over, guardian_hp>>]_vars

\* 95 + 10 gives 105
C8_Witness ==
    /\ lastOp = "drink_from_stream"
    /\ ret = 10
    /\ player_hp = 105

\* C9: investigate_cave consumes no draw and never changes has_key; without
\* the key it returns "no_key" and changes nothing; with the key and no
\* potion it sets has_potion and returns "chest_potion"; with the key and a
\* potion it returns "chest_empty" and changes nothing.
C9_InvestigateCave ==
    [][lastOp' = "investigate_cave" =>
        /\ drawn' = <<>>
        /\ rng_index' = rng_index
        /\ has_key' = has_key
        /\ ~has_key => (ret' = "no_key" /\ UNCHANGED fields)
        /\ (has_key /\ ~has_potion) =>
              /\ ret' = "chest_potion"
              /\ has_potion' = TRUE
              /\ UNCHANGED <<player_hp, player_name, game_over, guardian_hp>>
        /\ (has_key /\ has_potion) => (ret' = "chest_empty" /\ UNCHANGED fields)]_vars

C9_Witness ==
    /\ lastOp = "investigate_cave"
    /\ ret = "chest_potion"
    /\ has_key
    /\ has_potion

\* C10: enter_western_path consumes exactly one draw whatever has_key is; it
\* returns ("western", True) and sets has_key exactly when the draw is 1 and
\* has_key was false; otherwise it returns ("western", False) and changes no
\* field.
C10_EnterWesternPath ==
    [][lastOp' = "enter_western_path" =>
        /\ Len(drawn') = 1
        /\ rng_index' = rng_index + 1
        /\ DrawnRange(1) = <<1, 4>>
        /\ IF DrawnValue(1) = 1 /\ ~has_key
           THEN /\ ret' = <<"western", TRUE>>
                /\ has_key' = TRUE
                /\ UNCHANGED <<player_hp, player_name, has_potion, game_over, guardian_hp>>
           ELSE /\ ret' = <<"western", FALSE>>
                /\ UNCHANGED fields]_vars

\* a roll of 1 with the key already in hand
C10_Witness ==
    /\ lastOp = "enter_western_path"
    /\ drawn[1][3] = 1
    /\ ret = <<"western", FALSE>>
    /\ has_key

\* C11: reset, from any prior state, restores (player_hp, player_name,
\* has_key, has_potion, game_over, guardian_hp) = (100, "", False, True,
\* False, 50) and consumes no draw; a reset that follows a reset changes
\* nothing.
C11_ResetRestores ==
    [][lastOp' = "reset" =>
        /\ fields' = <<100, "", FALSE, TRUE, FALSE, 50>>
        /\ drawn' = <<>>
        /\ rng_index' = rng_index
        /\ lastOp = "reset" => UNCHANGED fields]_vars

\* reset after a session that the player lost
C11_Witness ==
    /\ lastOp = "reset"
    /\ hp_before <= 0
    /\ rng_index > 0
    /\ fields = <<100, "", FALSE, TRUE, FALSE, 50>>

\* the steps that end a battle round: the handling of a call's result, or a
\* battle choice that calls no method
RoundEnds ==
    \/ pc \in {"attack_returned", "sneak_returned", "potion_returned"}
    \/ pc = "guardian" /\ battle_continues /\ lastOp' = "run_cli"

\* C12 as stated: game_over is set true exactly when an attack has brought
\* guardian_hp to 0 or below or a sneak attempt has succeeded, in the step
\* that handles the result.
C12_SetOnlyOnVictory ==
    [][(~game_over /\ game_over') <=>
        \/ pc = "attack_returned" /\ guardian_hp <= 0
        \/ pc = "sneak_returned" /\ ret[1]]_vars

\* C12 as amended: game_over starts false and is set true by the step that
\* ends a battle round exactly when the guardian is at 0 or below, the sneak
\* has succeeded, or player_hp is at 0 or below.
C12_SetAtEndOfRound ==
    [][(~game_over /\ game_over') <=>
        /\ RoundEnds
        /\ \/ guardian_hp <= 0
           \/ pc = "sneak_returned" /\ ret[1]
           \/ player_hp' <= 0]_vars

\* game_over set by the death of the player, the guardian still standing
C12_Witness ==
    /\ pc = "ending"
    /\ game_over
    /\ player_hp = 0
    /\ guardian_hp > 0

\* C13: once game_over is true it stays true through every step; only
\* reset sets it back to false.
C13_GameOverMonotonic ==
    [][game_over => (game_over' \/ lastOp' = "reset")]_vars

\* a session won by sneaking, run_cli returned, game_over still true
C13_Witness ==
    /\ pc = "done"
    /\ game_over
    /\ player_hp > 0
    /\ guardian_hp > 0

\* C14: has_key becomes true only through the key roll of the eastern path
\* (safe branch, roll of 1) or the roll of the western path (1) while it was
\* false; once true it is set back to false by reset only.
C14_KeyOnlyFromRolls ==
    [][/\ (~has_key /\ has_key') =>
            \/ /\ lastOp' = "enter_eastern_path"
               /\ DrawnValue(1) <= 40
               /\ DrawnRange(2) = <<1, 3>>
               /\ DrawnValue(2) = 1
            \/ /\ lastOp' = "enter_western_path"
               /\ DrawnValue(1) = 1
       /\ (has_key /\ ~has_key') => lastOp' = "reset"]_vars

\* the key still in hand after the chest was opened with it
C14_Witness ==
    /\ lastOp = "investigate_cave"
    /\ ret = "chest_empty"
    /\ has_key

\* the engine operations that may change player_hp
HpOperations ==
    {"reset", "use_potion", "enter_eastern_path", "drink_from_stream",
     "battle_guardian_once", "attempt_sneak"}

\* C15 as stated: player_hp changes only in a step of reset, use_potion,
\* enter_eastern_path, drink_from_stream, battle_guardian_once or
\* attempt_sneak.
C15_HpOnlyByOperations ==
    [][player_hp' # player_hp => lastOp' \in HpOperations]_vars

\* C15 as amended: player_hp changes only in a step of those six operations
\* or in the driver's penalty for an invalid battle choice, which subtracts
\* one draw from 5..15.
C15_HpOnlyByOperationsOrPenalty ==
    [][player_hp' # player_hp =>
        \/ lastOp' \in HpOperations
        \/ /\ lastOp' = "run_cli"
           /\ pc = "guardian"
           /\ Len(drawn') = 1
           /\ DrawnRange(1) = <<5, 15>>
           /\ player_hp' = player_hp - DrawnValue(1)]_vars

\* the penalty of 15 taken by the driver itself
C15_Witness ==
    /\ lastOp = "run_cli"
    /\ drawn = <<Draw(5, 15, 15)>>
    /\ player_hp = hp_before - 15

\* C17: in a state where player_hp <= 0 or game_over is true no method that
\* draws or fights is called and no penalty is taken: the only steps are
\* steps of the driver that draw nothing, and reset.
C17_NoActionAfterEnd ==
    [][(player_hp <= 0 \/ game_over) =>
        /\ lastOp' \in {"run_cli", "reset"}
        /\ drawn' = <<>>
        /\ player_hp' = player_hp \/ lastOp' = "reset"]_vars

\* run_cli has returned after the player collapsed
C17_Witness ==
    /\ pc = "done"
    /\ lastOp = "run_cli"
    /\ player_hp <= 0
    /\ game_over

\* the positions of the guardian battle
BattlePcs == {"guardian", "attack_returned", "sneak_returned", "potion_returned"}

\* C18: the driver goes Start -> PathChosen -> SubEventResolved -> Battle ->
\* {Victory, Defeat}: a path is entered only from the menu of a session in
\* which nothing has happened yet, the battle only from the sub-event of a
\* path, an invalid path choice returns to the menu with the fields
\* unchanged, the battle is left only with the game over, and run_cli
\* returns only from the menu that follows the epilogue of a battle, with
\* game_over true (Victory if player_hp > 0, Defeat otherwise).
C18_DriverStateMachine ==
    [][/\ pc' \in {"east_returned", "stream_menu"} =>
            /\ pc = "menu"
            /\ player_hp = 100 /\ guardian_hp = 50 /\ has_potion /\ ~game_over
       /\ pc' = "cave_menu" => pc = "east_returned"
       /\ pc' = "crossing" => pc = "stream_menu"
       /\ (pc' \in BattlePcs /\ pc \notin BattlePcs) =>
            (pc \in {"cave_menu", "crossing"} /\ pc' = "guardian")
       /\ (pc = "menu" /\ pc' = "menu") => UNCHANGED fields
       /\ pc' = "ending" => (pc \in BattlePcs /\ (game_over' \/ player_hp' <= 0))
       /\ (pc = "ending") => (pc' = "menu" /\ ~outer_continues')
       /\ (pc' = "done" /\ pc # "done") =>
            /\ pc = "menu"
            /\ game_over
            /\ lastOp = "run_cli"]_vars

\* Victory: the guardian defeated, run_cli returned
C18_Witness ==
    /\ pc = "done"
    /\ game_over
    /\ player_hp > 0
    /\ guardian_hp <= 0

\* the positions at which the driver and the script both wait for input or
\* have finished
Aligned == pc \in {"menu", "cave_menu", "stream_menu", "crossing", "guardian",
                   "ending", "done"}

\* C19: fed the same choices and the same draws, terminal_game.py and
\* Game.run_cli pass through the same (player_hp, has_key, has_potion,
\* game_over) and the same positions.
C19_ScriptMatchesDriver ==
    Aligned =>
        /\ script_pc = pc
        /\ <<script_player_hp, script_has_key, script_has_potion, script_game_over>>
             = <<player_hp, has_key, has_potion, game_over>>

\* C20: after a successful use_potion player_hp is at most 100 whatever it
\* was before; from a value above 100 the potion lowers it to exactly 100
\* while reporting a positive heal amount.
C20_PotionNeverAbove100 ==
    [][(lastOp' = "use_potion" /\ has_potion) =>
        /\ ret'[1] = TRUE
        /\ player_hp' <= 100
        /\ player_hp > 100 =>
              /\ player_hp' = 100
              /\ player_hp' < player_hp
              /\ ret'[2] > 0]_vars

\* a potion reporting 20 that takes the player from 115 down to 100
C20_Witness ==
    /\ lastOp = "use_potion"
    /\ ret = <<TRUE, 20>>
    /\ hp_before = 115
    /\ player_hp = 100

\* the positions of the path phase, between the path menu and the battle
PathPcs == {"east_returned", "cave_menu", "stream_menu", "crossing"}

\* C21: in a session of the driver investigate_cave is called only from the
\* cave menu and only while has_potion is true, so it never returns
\* "chest_potion" and leaves has_potion true; the potion is held throughout
\* the path phase and is consumed only by use_potion in the guardian battle;
\* once the battle has started the driver never goes back to the path phase.
C21_CaveOnlyWithPotion ==
    [][/\ lastOp' = "investigate_cave" =>
            /\ pc = "cave_menu"
            /\ has_potion
            /\ ret' # "chest_potion"
            /\ has_potion'
       /\ pc' \in PathPcs => has_potion'
       /\ (has_potion /\ ~has_potion') =>
            (pc = "guardian" /\ lastOp' = "use_potion")
       /\ (pc \in BattlePcs \cup {"ending"}) => pc' \notin PathPcs
       /\ (~has_potion /\ lastOp' # "reset") => pc' \notin PathPcs]_vars

\* the chest opened with the key in a session that follows one in which the
\* potion was drunk: the potion is in hand again, the chest is empty
C21_Witness ==
    /\ lastOp = "investigate_cave"
    /\ ret = "chest_empty"
    /\ pc = "guardian"
    /\ has_key
    /\ has_potion
    /\ rng_index >= 7

\* C22: with draws inside their requested ranges the player cannot die
\* before the guardian battle: player_hp is at least 70 throughout the path
\* phase and when the battle loop is first entered, so the result of the
\* eastern path never takes the trap-death exit, and run_cli returns only
\* with game_over true.
C22_AliveAtBattleEntry ==
    [][/\ pc' \in PathPcs => player_hp' >= 70
       /\ (pc \in PathPcs /\ pc' = "guardian") => player_hp' >= 70
       /\ pc = "east_returned" => (player_hp > 0 /\ pc' = "cave_menu")
       /\ pc' = "done" => game_over']_vars

\* the battle's door reached through a trap of 30 and the cave
C22_Witness ==
    /\ lastOp = "investigate_cave"
    /\ pc = "guardian"
    /\ player_hp = 70
    /\ guardian_hp = 50
    /\ ~game_over

\* C23: with draws inside their requested ranges every state of a driver
\* session has -34 <= player_hp <= 115 and -24 <= guardian_hp <= 50, and
\* guardian_hp <= 0 implies game_over once the result of the attack has
\* been handled.
C23_HpBounds ==
    /\ -34 <= player_hp
    /\ player_hp <= 115
    /\ -24 <= guardian_hp
    /\ guardian_hp <= 50
    /\ (guardian_hp <= 0 /\ pc # "attack_returned") => game_over

\* a failed sneak of 35 on a player left with 1, who had drunk from the
\* stream up to 115 or walked into a trap of 19
C23_Witness ==
    /\ player_hp = -34
    /\ lastOp = "run_cli"
    /\ game_over
    /\ guardian_hp > 0

\* a battle choice that costs a round: an attack, a sneak attempt, or the
\* penalty of an invalid choice
CostlyRound ==
    /\ pc = "guardian"
    /\ \/ lastOp' \in {"battle_guardian_once", "attempt_sneak"}
       \/ lastOp' = "run_cli" /\ drawn' # <<>>

\* what the battle can still use up: the two health counters, counted from
\* their lowest values, and the potion, worth more than it can heal
BattleStock ==
    (player_hp + 34) + (guardian_hp + 24) + (IF has_potion THEN 42 ELSE 0)

\* how far the position is from the return of run_cli; the stream counts
\* for more than it can heal
PositionRank ==
    CASE pc = "done" -> 0
      [] pc = "menu" -> IF game_over THEN 1 ELSE 22
      [] pc = "ending" -> 2
      [] pc = "sneak_returned" -> IF ret[1] THEN 3 ELSE 5
      [] pc = "guardian" -> 4
      [] pc \in {"attack_returned", "potion_returned", "cave_menu", "crossing"} -> 5
      [] pc = "east_returned" -> 6
      [] pc = "stream_menu" -> 21
      [] pc = "new" -> 23

\* the measure of a session
SessionRank == BattleStock + PositionRank

\* C24: every battle round other than choice 3 strictly decreases player_hp
\* or guardian_hp or ends the game (a successful sneak, whose result sets
\* game_over); the potion is used at most once, has_potion never turning
\* true again; every step of the session either changes nothing of the
\* position and the fields (the choices that change nothing) or strictly
\* decreases a measure that is never negative, and until run_cli has
\* returned a step that decreases it is possible, so that a player who does
\* not repeat the choices that change nothing for ever reaches the return
\* of run_cli; no session has more than 5 attack rounds and the fifth ends
\* the battle.
C24_SessionTerminates ==
    /\ [][/\ CostlyRound =>
                \/ player_hp' < player_hp
                \/ guardian_hp' < guardian_hp
                \/ lastOp' = "attempt_sneak" /\ ret'[1] /\ pc' = "sneak_returned"
          /\ (pc = "sneak_returned" /\ ret[1]) => (game_over' /\ pc' = "ending")
          /\ lastOp' = "use_potion" => (has_potion /\ ~has_potion')
          /\ ~has_potion => ~has_potion'
          /\ SessionRank' < SessionRank \/ UNCHANGED <<pc, fields>>]_vars
    /\ [](SessionRank >= 0)
    /\ [](pc # "done" => ENABLED SessionProgress)
    /\ [](attack_rounds <= 5)
    /\ []((attack_rounds = 5 /\ pc # "attack_returned") => game_over)

\* the fifth attack of a session, the guardian down, run_cli returned
C24_Witness ==
    /\ pc = "done"
    /\ attack_rounds = 5
    /\ guardian_hp = 0
    /\ ~has_potion
    /\ ~attack_only

\* C25: with draws inside their requested ranges, a player who enters the
\* guardian battle with player_hp above 80 and chooses only attack always
\* wins: player_hp stays above 0, having lost at most 20 for each of at most
\* four retaliations; the fifth attack at the latest brings guardian_hp to 0
\* or below; and the battle is left only with the guardian defeated and
\* game_over true.
C25_AttackOnlyWins ==
    (battle_entry_hp > 80 /\ attack_only) =>
        /\ player_hp > 0
        /\ player_hp >= battle_entry_hp - 20 * Min(attack_rounds, 4)
        /\ attack_rounds <= 5
        /\ attack_rounds = 5 => guardian_hp <= 0
        /\ pc \in {"ending", "menu", "done"} => (game_over /\ guardian_hp <= 0)

\* a trap of 19, then five attacks of 10 and four retaliations of 20: the
\* guardian falls to a player left with 1
C25_Witness ==
    /\ pc = "done"
    /\ battle_entry_hp = 81
    /\ attack_only
    /\ attack_rounds = 5
    /\ player_hp = 1
    /\ guardian_hp = 0
    /\ game_over

====
